---- MODULE Spec2Model ----
(***************************************************************************)
(* State-machine model of src/infinigpt.py: the per-room, per-sender       *)
(* history store, the command dispatcher, the moderation gate and the      *)
(* per-room model override of the InfiniGPT Matrix bot.                    *)
(*                                                                         *)
(* Python strings are sequences of one-character strings, so that          *)
(* startswith, split, lower, strip and the substring test are computed     *)
(* the way the code computes them.  A multi-character literal of the       *)
(* source that is only ever concatenated or printed is kept as one symbol. *)
(***************************************************************************)
EXTENDS Naturals, Sequences, FiniteSets, TLC

VARIABLES
    pc,            \* "constructed", "initialized", then "syncing" and "returned" in turn
    models,        \* self.models
    model_mapping, \* self.model_mapping: [defined, map]; the attribute may be unset
    current_model, \* self.current_model
    user_id,       \* self.client.user_id as main() sets it
    messages,      \* self.messages: room -> insertion-ordered dict sender -> history
    room_models,   \* self.room_models: room -> model id
    event,         \* the inbound event handled last
    outbox,        \* the room_send calls made while handling it
    requests,      \* the chat.completions.create calls made while handling it
    raised,        \* whether an exception left message_callback while handling it
    evicted,       \* the histories on which respond's window deletion ran
    tasks,         \* the message_callback coroutines in flight, when the host runs two
    history_log    \* the add_history calls made since no coroutine was in flight

vars == <<pc, models, model_mapping, current_model, user_id, messages,
          room_models, event, outbox, requests, raised, evicted, tasks, history_log>>

---------------------------------------------------------------------------
(* Python values *)

\* Python's None, where a str is expected: no str of the model equals it.
None == <<"<None>">>

\* An f-string's rendering of a value that may be None.
Fmt(x) == IF x = None THEN <<"N", "o", "n", "e">> ELSE x

\* str.startswith(p)
StartsWith(s, p) == Len(s) >= Len(p) /\ SubSeq(s, 1, Len(p)) = p

Spaces(s) == {i \in 1..Len(s) : s[i] = " "}

FirstOf(S) == CHOOSE i \in S : \A j \in S : i <= j

\* str.split(" ", 1)
Split1(s) ==
    IF Spaces(s) = {} THEN <<s>>
    ELSE LET i == FirstOf(Spaces(s))
         IN  <<SubSeq(s, 1, i - 1), SubSeq(s, i + 1, Len(s))>>

\* str.split(" ", 2)
Split2(s) ==
    LET a == Split1(s)
    IN  IF Len(a) = 1 THEN a ELSE <<a[1]>> \o Split1(a[2])

Fold == [A |-> "a", B |-> "b", D |-> "d", H |-> "h", I |-> "i"]

\* str.lower()
lower(s) == [i \in 1..Len(s) |-> IF s[i] \in DOMAIN Fold THEN Fold[s[i]] ELSE s[i]]

\* word in message
Contains(s, w) ==
    \E i \in 0..Len(s) : i + Len(w) <= Len(s) /\ SubSeq(s, i + 1, i + Len(w)) = w

Quote == "\""

RECURSIVE lstrip(_)
lstrip(s) == IF s # <<>> /\ Head(s) = Quote THEN lstrip(Tail(s)) ELSE s

RECURSIVE rstrip(_)
rstrip(s) ==
    IF s # <<>> /\ s[Len(s)] = Quote THEN rstrip(SubSeq(s, 1, Len(s) - 1)) ELSE s

\* str.strip('"')
strip(s) == rstrip(lstrip(s))

\* The order of str comparison on the characters the model names use.
Alphabet == <<"-", "a", "d", "e", "g", "l", "m", "p", "r", "s", "t", "x">>

Rank(c) == CHOOSE i \in 1..Len(Alphabet) : Alphabet[i] = c

RECURSIVE StrLess(_, _)
StrLess(a, b) ==
    IF b = <<>> THEN FALSE
    ELSE IF a = <<>> THEN TRUE
    ELSE IF Head(a) = Head(b) THEN StrLess(Tail(a), Tail(b))
    ELSE Rank(Head(a)) < Rank(Head(b))

RECURSIVE sorted(_)
sorted(S) ==
    IF S = {} THEN <<>>
    ELSE LET m == CHOOSE x \in S : \A y \in S \ {x} : StrLess(x, y)
         IN  <<m>> \o sorted(S \ {m})

Range(q) == {q[i] : i \in 1..Len(q)}

---------------------------------------------------------------------------
(* Configuration (class Config) and the constructor's constants *)

GptX == <<"g", "p", "t", "-", "x">>
Llama == <<"l", "l", "a", "m", "a">>
Reset == <<"r", "e", "s", "e", "t">>
IdGptX == <<"m", "-", "g", "p", "t", "-", "x">>
IdLlama == <<"m", "-", "l", "l", "a", "m", "a">>
IdReset == <<"m", "-", "r", "e", "s", "e", "t">>
IdDefault == <<"m", "-", "d", "e", "l", "t", "a">>

config_models == <<Llama, GptX, Reset>>
config_restrict_to_specified_models == TRUE
config_matrix_username == <<"@", "b", "o", "t">>
config_personality == <<"a wise owl">>
config_admins == {<<"@", "a", "n", "n">>}
config_forbidden_words == {<<"b", "a", "d">>}
config_default_model == IdDefault
config_moderation_enabled == TRUE
config_moderation_strategy == "forbidden_words"

\* self.default_model, assigned once in __init__
default_model == config_default_model

\* self.join_time
join_time == 1

\* self.prompt
prompt ==
    << <<"assume the personality of ">>,
       <<".  roleplay and never break character. keep your responses relatively short.">> >>

---------------------------------------------------------------------------
(* The history store: self.messages[channel] is a dict in insertion order, a
   sequence of [user, hist] entries with distinct users. *)

Msg(role, content) == [role |-> role, content |-> content]

Has(d, u) == \E i \in 1..Len(d) : d[i].user = u

Idx(d, u) == CHOOSE i \in 1..Len(d) : d[i].user = u

Get(d, u) == d[Idx(d, u)].hist

Keys(d) == [i \in 1..Len(d) |-> d[i].user]

\* d[u] = h: an existing key keeps its place, a new key goes last.
Put(d, u, h) ==
    IF Has(d, u) THEN [d EXCEPT ![Idx(d, u)].hist = h]
    ELSE Append(d, [user |-> u, hist |-> h])

\* channel in self.messages and sender in self.messages[channel]
HasConv(msgs, channel, sender) ==
    channel \in DOMAIN msgs /\ Has(msgs[channel], sender)

\* self.messages[channel][sender]
Conv(msgs, channel, sender) == Get(msgs[channel], sender)

\* The default persona preamble add_history seeds a new conversation with.
Preamble == Msg("system", prompt[1] \o config_personality \o prompt[2])

\* The state one handler run works on: the two stores it may change and what
\* it has sent, requested, evicted and raised so far.
World(msgs, rm) ==
    [messages |-> msgs, room_models |-> rm, outbox |-> <<>>, requests |-> <<>>,
     raised |-> FALSE, evicted |-> <<>>]

\* The gate without .lower(): a forbidden word matches in its own case only.
moderate_CaseSensitive(message) ==
    config_moderation_enabled
    /\ config_moderation_strategy = "forbidden_words"
    /\ \E word \in config_forbidden_words : Contains(message, word)

\* moderate(message)
moderate(message) ==
    IF ~config_moderation_enabled THEN FALSE
    ELSE IF config_moderation_strategy = "forbidden_words"
         THEN \E word \in config_forbidden_words :
                  Contains(lower(message), lower(word))
         ELSE FALSE

\* add_history(role, channel, sender, message)
add_history(msgs, role, channel, sender, message) ==
    LET m1 == IF channel \in DOMAIN msgs THEN msgs ELSE msgs @@ (channel :> <<>>)
    IN  IF ~Has(m1[channel], sender)
        THEN [m1 EXCEPT ![channel] = Put(@, sender, <<Preamble, Msg(role, message)>>)]
        ELSE [m1 EXCEPT ![channel] =
                  Put(@, sender, Append(Get(@, sender), Msg(role, message)))]

\* display_name(user) under the directory dn the transport answers from; a
\* failed or empty lookup is None.
display_name(dn, user) == IF user \in DOMAIN dn THEN dn[user] ELSE None

Body(text, name, arg) == [text |-> text, name |-> name, arg |-> arg]

\* send_message: one plain room_send
send_message(w, channel, body) ==
    [w EXCEPT !.outbox = Append(@, [room |-> channel, msgtype |-> "m.text",
                                    html |-> FALSE, body |-> body])]

\* send_markdown_message: one room_send carrying a formatted_body
send_markdown_message(w, channel, body) ==
    [w EXCEPT !.outbox = Append(@, [room |-> channel, msgtype |-> "m.text",
                                    html |-> TRUE, body |-> body])]

\* The completion backend's outcome for one request: a failure or a text.
Failed == <<"<exception>">>

\* del self.messages[channel][sender][1:3]
DelSlice(h) == <<h[1]>> \o SubSeq(h, 4, Len(h))

\* The sliding window's limit in respond.
WindowLimit == 24

\* The except clause of respond with a bare raise: the failure leaves respond
\* and nothing is sent.
respond_except_Reraise(w, channel) == [w EXCEPT !.raised = TRUE]

\* The except clause of respond: the apology, as a plain message.
respond_except(w, channel) ==
    send_message(w, channel,
        Body("An error occurred while generating a response. Please try again later.",
             <<>>, <<>>))

\* respond(channel, sender, self.messages[channel][sender], sender2); a request
\* is recorded with the model it names, the conversation it carries and
\* whether it failed.
respond(w, channel, sender, sender2, dn, completion) ==
    LET got == IF channel \in DOMAIN w.room_models
               THEN w.room_models[channel] ELSE default_model
        model == IF got = <<>> THEN default_model ELSE got
        w1 == [w EXCEPT !.requests =
                   Append(@, [model |-> model,
                              messages |-> Conv(w.messages, channel, sender),
                              failed |-> completion = Failed])]
    IN  IF completion = Failed
        THEN respond_except(w1, channel)
        ELSE LET response_text == strip(completion)
                 w2 == [w1 EXCEPT !.messages =
                            add_history(@, "assistant", channel, sender, response_text)]
                 name == display_name(dn, IF sender2 \in {None, <<>>} THEN sender ELSE sender2)
                 w3 == send_markdown_message(w2, channel,
                           Body("{display_name}:\n\n{response_text}", Fmt(name), response_text))
                 h == Conv(w3.messages, channel, sender)
             IN  IF Len(h) > WindowLimit
                 THEN [w3 EXCEPT !.messages[channel] = Put(@, sender, DelSlice(h)),
                                 !.evicted = Append(@, h)]
                 ELSE w3

\* The try/except around .clear() in persona and custom.
Clear(msgs, channel, sender) ==
    IF HasConv(msgs, channel, sender)
    THEN [msgs EXCEPT ![channel] = Put(@, sender, <<>>)]
    ELSE msgs

\* persona(channel, sender, persona)
persona(msgs, channel, sender, text) ==
    add_history(Clear(msgs, channel, sender), "system", channel, sender,
                prompt[1] \o text \o prompt[2])

\* custom(channel, sender, prompt)
custom(msgs, channel, sender, text) ==
    add_history(Clear(msgs, channel, sender), "system", channel, sender, text)

\* The override written to every room that has one, not to room_id alone.
change_model_EveryRoom(rm, room_id, model_id) ==
    [r \in DOMAIN rm \cup {room_id} |-> model_id]

\* change_model(room_id, model_id)
change_model(rm, room_id, model_id) ==
    IF room_id \in DOMAIN rm THEN [rm EXCEPT ![room_id] = model_id]
    ELSE rm @@ (room_id :> model_id)

---------------------------------------------------------------------------
(* The model catalog *)

\* What the backend's /models listing answers: a failure (RequestException,
\* or a KeyError on the answer's format) or the listed models.
ListingFailed == [ok |-> FALSE, data |-> <<>>]

Listed(data) == [ok |-> TRUE, data |-> data]

Names(data) == [i \in 1..Len(data) |-> data[i].name]

\* The dict comprehension of model_list: a later entry of a name wins.
Mapping(data, names) ==
    [n \in {data[i].name : i \in 1..Len(data)} \cap names |->
        data[CHOOSE i \in 1..Len(data) :
                 /\ data[i].name = n
                 /\ \A j \in 1..Len(data) : data[j].name = n => j <= i].id]

\* model_list(): the value returned and the attributes as it leaves them
model_list(listing) ==
    IF listing.ok
    THEN LET available_models == Names(listing.data)
             ms == IF config_restrict_to_specified_models
                   THEN sorted(Range(config_models) \cap Range(available_models))
                   ELSE sorted(Range(available_models))
         IN  [returned |-> ms, models |-> ms,
              model_mapping |-> [defined |-> TRUE, map |-> Mapping(listing.data, Range(ms))]]
    ELSE [returned |-> IF config_restrict_to_specified_models THEN config_models ELSE <<>>,
          models |-> models, model_mapping |-> model_mapping]

\* initialize_openai's choice of self.current_model
select_current(available_models) ==
    IF available_models # <<>>
    THEN IF default_model \notin Range(available_models)
         THEN available_models[1]
         ELSE default_model
    ELSE default_model

---------------------------------------------------------------------------
(* The command handlers.  Each takes the world w of the handler run and
   returns it as the handler leaves it; an exception that leaves the handler
   sets w.raised and keeps what was done before it. *)

Raise(w) == [w EXCEPT !.raised = TRUE]

DotAi == <<".", "a", "i", " ">>
DotX == <<".", "x", " ">>
DotPersona == <<".", "p", "e", "r", "s", "o", "n", "a", " ">>
DotCustom == <<".", "c", "u", "s", "t", "o", "m", " ">>
DotModel == <<".", "m", "o", "d", "e", "l">>
DotModels == DotModel \o <<"s">>
DotReset == <<".", "r", "e", "s", "e", "t">>
DotStock == <<".", "s", "t", "o", "c", "k">>
DotHelp == <<".", "h", "e", "l", "p">>

\* _handle_ai_command
_handle_ai_command(w, room_id, sender, sender_display, message, dn, completion) ==
    LET parts == Split1(message)
    IN  IF Len(parts) < 2 THEN Raise(w)
        ELSE LET m == parts[2]
             IN  IF moderate(m)
                 THEN send_message(w, room_id,
                          Body("{sender_display}: This message violates the usage policy and was not sent.",
                               Fmt(sender_display), <<>>))
                 ELSE respond([w EXCEPT !.messages = add_history(@, "user", room_id, sender, m)],
                              room_id, sender, None, dn, completion)

\* The scan of _handle_x_command over the room's participants: every match
\* overwrites name_id.
RECURSIVE ScanNames(_, _, _, _)
ScanNames(users, disp_name, dn, name_id) ==
    IF users = <<>> THEN name_id
    ELSE ScanNames(Tail(users), disp_name, dn,
                   IF disp_name = display_name(dn, Head(users)) THEN Head(users) ELSE name_id)

\* _handle_x_command
_handle_x_command(w, room_id, sender, sender_display, message, dn, completion) ==
    LET parts == Split2(message)
    IN  IF Len(parts) > 2
        THEN LET disp_name == parts[2]
                 m == parts[3]
             IN  IF room_id \in DOMAIN w.messages
                 THEN LET name_id == ScanNames(Keys(w.messages[room_id]), disp_name, dn, <<>>)
                      IN  IF moderate(m)
                          THEN send_message(w, room_id,
                                   Body("{sender_display}: This message violates the usage policy and was not sent.",
                                        Fmt(sender_display), <<>>))
                          ELSE respond([w EXCEPT !.messages =
                                            add_history(@, "user", room_id, name_id, m)],
                                       room_id, name_id, sender, dn, completion)
                 ELSE w
        ELSE w

\* _handle_persona_command
_handle_persona_command(w, room_id, sender, sender_display, message, dn, completion) ==
    LET parts == Split1(message)
    IN  IF Len(parts) < 2 THEN Raise(w)
        ELSE LET m == parts[2]
             IN  IF moderate(m)
                 THEN send_message(w, room_id,
                          Body("{sender_display}: This persona violates the usage policy and was not set. Choose a new persona.",
                               Fmt(sender_display), <<>>))
                 ELSE respond([w EXCEPT !.messages = persona(@, room_id, sender, m)],
                              room_id, sender, None, dn, completion)

\* _handle_custom_command
_handle_custom_command(w, room_id, sender, sender_display, message, dn, completion) ==
    LET parts == Split1(message)
    IN  IF Len(parts) < 2 THEN Raise(w)
        ELSE LET m == parts[2]
             IN  IF moderate(m)
                 THEN send_message(w, room_id,
                          Body("{sender_display}: This custom prompt violates the usage policy and was not set.",
                               Fmt(sender_display), <<>>))
                 ELSE respond([w EXCEPT !.messages = custom(@, room_id, sender, m)],
                              room_id, sender, None, dn, completion)

\* ", ".join(names)
RECURSIVE Join(_)
Join(names) ==
    IF names = <<>> THEN <<>>
    ELSE IF Len(names) = 1 THEN names[1]
    ELSE names[1] \o <<",", " ">> \o Join(Tail(names))

\* self.room_models.get(room_id, self.default_model)
Resolve(rm, room_id) == IF room_id \in DOMAIN rm THEN rm[room_id] ELSE default_model

\* The admin check left out: anyone may set the model.
IsAdmin_Anyone(sender) == TRUE

\* sender in self.config.admins
IsAdmin(sender) == sender \in config_admins

\* _handle_model_command
_handle_model_command(w, room_id, sender, sender_display, message) ==
    IF message = DotModel \/ message = DotModels
    THEN send_message(w, room_id,
             Body("Current model for this room: {current_model}\nAvailable models: ",
                  Resolve(w.room_models, room_id), Join(models)))
    ELSE IF StartsWith(message, DotModel \o <<" ">>) /\ IsAdmin(sender)
    THEN LET model_name == Split1(message)[2]
         IN  IF ~model_mapping.defined THEN Raise(w)
             ELSE IF model_name \in DOMAIN model_mapping.map
             THEN LET model_id == model_mapping.map[model_name]
                  IN  send_message(
                          [w EXCEPT !.room_models = change_model(@, room_id, model_id)],
                          room_id,
                          Body("Model for this room set to {model_name} ({model_id})",
                               model_name, model_id))
             ELSE IF model_name = Reset
             THEN send_message(
                      [w EXCEPT !.room_models = change_model(@, room_id, default_model)],
                      room_id,
                      Body("Model for this room reset to {self.default_model}",
                           default_model, <<>>))
             ELSE send_message(w, room_id, Body("Invalid model name. Try again.", <<>>, <<>>))
    ELSE w

\* _handle_reset_command
_handle_reset_command(w, room_id, sender, sender_display) ==
    LET w1 == IF HasConv(w.messages, room_id, sender)
              THEN [w EXCEPT !.messages =
                        persona(Clear(@, room_id, sender), room_id, sender, config_personality)]
              ELSE w
    IN  send_message(w1, room_id,
            Body("{self.client.user_id} reset to default for {sender_display}",
                 Fmt(user_id), Fmt(sender_display)))

\* _handle_stock_command
_handle_stock_command(w, room_id, sender, sender_display) ==
    LET w1 == IF room_id \in DOMAIN w.messages
              THEN [w EXCEPT !.messages = Clear(@, room_id, sender)]
              ELSE [w EXCEPT !.messages =
                        @ @@ (room_id :> <<[user |-> sender, hist |-> <<>>]>>)]
    IN  send_message(w1, room_id,
            Body("Stock settings applied for {sender_display}", Fmt(sender_display), <<>>))

\* _handle_help_command; help_ok: whether help.txt could be read
_handle_help_command(w, room_id, sender_display, help_ok) ==
    IF help_ok
    THEN send_message(w, room_id, Body("{help_text}", <<>>, <<>>))
    ELSE send_message(w, room_id,
             Body("{sender_display}: An error occurred while loading the help file. Please try again later.",
                  Fmt(sender_display), <<>>))

---------------------------------------------------------------------------
(* message_callback *)

\* The time guard with < for <=: an event stamped with the join time passes.
Dropped_OlderOnly(ev) == ev.ts < join_time \/ ev.sender = config_matrix_username

\* The two guards of message_callback: the event is not newer than the join
\* time, or it is the bot's own.
Dropped(ev) == ev.ts <= join_time \/ ev.sender = config_matrix_username

\* The if/elif chain of message_callback: the handler the line goes to,
\* "none" when no prefix matches, "TypeError" when startswith is handed a
\* user_id of None.
Route(message) ==
    IF StartsWith(message, DotAi) THEN "ai"
    ELSE IF user_id = None THEN "TypeError"
    ELSE IF StartsWith(message, user_id) THEN "ai"
    ELSE IF StartsWith(message, DotX) THEN "x"
    ELSE IF StartsWith(message, DotPersona) THEN "persona"
    ELSE IF StartsWith(message, DotCustom) THEN "custom"
    ELSE IF StartsWith(message, DotModel) THEN "model"
    ELSE IF StartsWith(message, DotReset) THEN "reset"
    ELSE IF StartsWith(message, DotStock) THEN "stock"
    ELSE IF StartsWith(message, DotHelp) THEN "help"
    ELSE "none"

\* message_callback(room, event), with what the collaborators answer during
\* the run: the display-name directory dn, the completion, the help file.
message_callback(w, ev, dn, completion, help_ok) ==
    IF Dropped(ev) THEN w
    ELSE LET room_id == ev.room
             sender == ev.sender
             message == ev.body
             sender_display == display_name(dn, sender)
             to == Route(message)
         IN  CASE to = "TypeError" -> Raise(w)
               [] to = "ai" ->
                    _handle_ai_command(w, room_id, sender, sender_display, message, dn, completion)
               [] to = "x" ->
                    _handle_x_command(w, room_id, sender, sender_display, message, dn, completion)
               [] to = "persona" ->
                    _handle_persona_command(w, room_id, sender, sender_display, message, dn, completion)
               [] to = "custom" ->
                    _handle_custom_command(w, room_id, sender, sender_display, message, dn, completion)
               [] to = "model" ->
                    _handle_model_command(w, room_id, sender, sender_display, message)
               [] to = "reset" -> _handle_reset_command(w, room_id, sender, sender_display)
               [] to = "stock" -> _handle_stock_command(w, room_id, sender, sender_display)
               [] to = "help" -> _handle_help_command(w, room_id, sender_display, help_ok)
               [] OTHER -> w

---------------------------------------------------------------------------
(* The environment: who writes what, and what the collaborators answer *)

Ann == <<"@", "a", "n", "n">>
Bob == <<"@", "b", "o", "b">>
Bot == config_matrix_username

Al == <<"A", "l">>
Zed == <<"Z", "e", "d">>
BotName == <<"b", "o", "t">>

\* The display names the transport knows; Ann and Bob share theirs.
Directory == (Ann :> Al) @@ (Bob :> Al) @@ (Bot :> BotName)

\* Every lookup fails.
NoDirectory == [u \in {} |-> None]

Hi == <<"h", "i">>
Bad == <<"B", "a", "d">>
Yo == <<Quote, "y", "o", Quote>>
Sp == <<" ">>

Catalog ==
    <<[name |-> GptX, id |-> IdGptX], [name |-> Llama, id |-> IdLlama]>>

CatalogWithReset ==
    <<[name |-> Reset, id |-> IdReset], [name |-> GptX, id |-> IdGptX]>>

Events(rooms, senders, bodies, stamps) ==
    [room : rooms, sender : senders, body : bodies, ts : stamps]

\* The bounds of one specification: the inputs it draws and the size it lets
\* the history store grow to.
Env(events, dirs, completions, listings, maxstore, maxopen) ==
    [events |-> events, dirs |-> dirs, completions |-> completions,
     listings |-> listings, maxstore |-> maxstore, maxopen |-> maxopen]

\* The size of the history store: its conversations and their messages.
RECURSIVE DictSize(_)
DictSize(d) == IF d = <<>> THEN 0 ELSE 1 + Len(Head(d).hist) + DictSize(Tail(d))

RECURSIVE StoreSize(_, _)
StoreSize(msgs, rooms) ==
    IF rooms = {} THEN 0
    ELSE LET r == CHOOSE x \in rooms : TRUE
         IN  DictSize(msgs[r]) + StoreSize(msgs, rooms \ {r})

\* The user messages of a history that no assistant message follows.
Open(h) ==
    Cardinality({i \in 1..Len(h) :
        h[i].role = "user" /\ (i = Len(h) \/ h[i + 1].role # "assistant")})

Within(env, w) ==
    /\ StoreSize(w.messages, DOMAIN w.messages) <= env.maxstore
    /\ \A r \in DOMAIN w.messages : \A i \in 1..Len(w.messages[r]) :
           Open(w.messages[r][i].hist) <= env.maxopen

---------------------------------------------------------------------------
(* The state machine *)

NoEvent == [room |-> "", sender |-> <<>>, body |-> <<>>, ts |-> 0]

\* The coroutines of message_callback the host may have in flight at once.
Slots == {1, 2}

\* A coroutine of message_callback: the event it handles, the await it is
\* suspended at and its local variables; began is the length of the log of
\* add_history calls when it started.
NoTask(s) ==
    [slot |-> s, at |-> "idle", ev |-> NoEvent, began |-> 0, sender_display |-> None,
     users |-> <<>>, k |-> 0, disp_name |-> <<>>, name_id |-> <<>>, m |-> <<>>,
     channel |-> "", sender |-> <<>>, sender2 |-> None, response_text |-> <<>>]

\* InfiniGPT.__init__
Init ==
    /\ pc = "constructed"
    /\ models = <<>>
    /\ model_mapping = [defined |-> FALSE, map |-> [n \in {} |-> <<>>]]
    /\ current_model = None
    /\ user_id = config_matrix_username
    /\ messages = [r \in {} |-> <<>>]
    /\ room_models = [r \in {} |-> <<>>]
    /\ event = NoEvent
    /\ outbox = <<>>
    /\ requests = <<>>
    /\ raised = FALSE
    /\ evicted = <<>>
    /\ tasks = [s \in Slots |-> NoTask(s)]
    /\ history_log = <<>>

\* initialize_openai(api_key)
initialize_openai(env) ==
    /\ pc = "constructed"
    /\ \E listing \in env.listings :
           LET r == model_list(listing)
           IN  /\ models' = r.models
               /\ model_mapping' = r.model_mapping
               /\ current_model' = select_current(r.returned)
    /\ pc' = "initialized"
    /\ UNCHANGED <<user_id, messages, room_models, event, outbox, requests, raised, evicted,
                   tasks, history_log>>

\* InfiniGPT.main up to sync_forever
main(env) ==
    /\ pc = "initialized"
    /\ \E dn \in env.dirs : user_id' = display_name(dn, config_matrix_username)
    /\ pc' = "syncing"
    /\ UNCHANGED <<models, model_mapping, current_model, messages, room_models,
                   event, outbox, requests, raised, evicted, tasks, history_log>>

\* The branch of message_callback an event takes.
Branch(ev) == IF Dropped(ev) THEN "dropped" ELSE Route(ev.body)

\* One run of message_callback, on event ev with the collaborators answering
\* dn, completion and help_ok: the run's effects, and the event, what was sent
\* and requested for the run as the callback returns.
Run(env, ev, dn, completion, help_ok) ==
    LET w == message_callback(World(messages, room_models), ev, dn, completion, help_ok)
    IN  /\ Within(env, w)
        /\ messages' = w.messages
        /\ room_models' = w.room_models
        /\ outbox' = w.outbox
        /\ requests' = w.requests
        /\ raised' = w.raised
        /\ evicted' = w.evicted
        /\ event' = ev
        /\ pc' = "returned"
        /\ UNCHANGED <<models, model_mapping, current_model, user_id, tasks, history_log>>

Taking(env, to) == {ev \in env.events : Branch(ev) = to}

\* An event that fails a guard of message_callback.
Drop(env) ==
    /\ pc = "syncing"
    /\ \E ev \in Taking(env, "dropped") : Run(env, ev, Directory, Failed, TRUE)

\* A line other than ".ai " when self.client.user_id is None.
RouteTypeError(env) ==
    /\ pc = "syncing"
    /\ \E ev \in Taking(env, "TypeError"), dn \in env.dirs : Run(env, ev, dn, Failed, TRUE)

OnAi(env) ==
    /\ pc = "syncing"
    /\ \E ev \in Taking(env, "ai"), dn \in env.dirs, completion \in env.completions :
           Run(env, ev, dn, completion, TRUE)

OnX(env) ==
    /\ pc = "syncing"
    /\ \E ev \in Taking(env, "x"), dn \in env.dirs, completion \in env.completions :
           Run(env, ev, dn, completion, TRUE)

OnPersona(env) ==
    /\ pc = "syncing"
    /\ \E ev \in Taking(env, "persona"), dn \in env.dirs, completion \in env.completions :
           Run(env, ev, dn, completion, TRUE)

OnCustom(env) ==
    /\ pc = "syncing"
    /\ \E ev \in Taking(env, "custom"), dn \in env.dirs, completion \in env.completions :
           Run(env, ev, dn, completion, TRUE)

OnModel(env) ==
    /\ pc = "syncing"
    /\ \E ev \in Taking(env, "model"), dn \in env.dirs : Run(env, ev, dn, Failed, TRUE)

OnReset(env) ==
    /\ pc = "syncing"
    /\ \E ev \in Taking(env, "reset"), dn \in env.dirs : Run(env, ev, dn, Failed, TRUE)

OnStock(env) ==
    /\ pc = "syncing"
    /\ \E ev \in Taking(env, "stock"), dn \in env.dirs : Run(env, ev, dn, Failed, TRUE)

OnHelp(env) ==
    /\ pc = "syncing"
    /\ \E ev \in Taking(env, "help"), dn \in env.dirs, help_ok \in BOOLEAN :
           Run(env, ev, dn, Failed, help_ok)

\* A line no prefix matches.
Ignore(env) ==
    /\ pc = "syncing"
    /\ \E ev \in Taking(env, "none"), dn \in env.dirs : Run(env, ev, dn, Failed, TRUE)

\* The callback has returned: sync_forever waits for the next event.
sync_forever ==
    /\ pc = "returned"
    /\ pc' = "syncing"
    /\ event' = NoEvent
    /\ outbox' = <<>>
    /\ requests' = <<>>
    /\ raised' = FALSE
    /\ evicted' = <<>>
    /\ UNCHANGED <<models, model_mapping, current_model, user_id, messages, room_models,
                   tasks, history_log>>

MaxStore == 3

Bodies ==
    { DotAi \o Hi, DotAi \o Bad,
      DotX \o Al \o Sp \o Hi, DotX \o Al \o Sp \o Bad, DotX \o Zed \o Sp \o Hi,
      DotPersona \o Hi, DotPersona \o Bad,
      DotCustom \o Hi, DotCustom \o Bad,
      DotModel, DotModels, DotModel \o Sp \o GptX, DotModel \o Sp \o Reset,
      DotModel \o Sp \o Zed,
      DotReset, DotStock, DotHelp, Hi }

\* Every line from Ann and Bob in two rooms after the join, and every line
\* once at the join time and once from the bot itself.
EnvMain ==
    Env(Events({"r1", "r2"}, {Ann, Bob}, Bodies, {join_time + 1})
          \cup Events({"r1"}, {Ann}, Bodies, {join_time})
          \cup Events({"r2"}, {Bot}, Bodies, {join_time + 1}),
        {Directory, NoDirectory}, {Failed, Yo},
        {ListingFailed, Listed(Catalog), Listed(CatalogWithReset)},
        MaxStore, MaxStore)

Next ==
    \/ initialize_openai(EnvMain)
    \/ main(EnvMain)
    \/ Drop(EnvMain)
    \/ RouteTypeError(EnvMain)
    \/ OnAi(EnvMain)
    \/ OnX(EnvMain)
    \/ OnPersona(EnvMain)
    \/ OnCustom(EnvMain)
    \/ OnModel(EnvMain)
    \/ OnReset(EnvMain)
    \/ OnStock(EnvMain)
    \/ OnHelp(EnvMain)
    \/ Ignore(EnvMain)
    \/ sync_forever

Spec == Init /\ [][Next]_vars

---------------------------------------------------------------------------
(* One sender in one room, with a history store large enough for the sliding
   window of respond to come into play. *)

MaxWindowStore == 28
MaxWindowOpen == 2

WindowBodies ==
    {DotAi \o Hi, DotPersona \o Hi, DotCustom \o Hi, DotReset, DotStock}

EnvWindow ==
    Env(Events({"r1"}, {Bob}, WindowBodies, {join_time + 1}),
        {Directory}, {Failed, Yo}, {Listed(Catalog)}, MaxWindowStore, MaxWindowOpen)

NextWindow ==
    \/ initialize_openai(EnvWindow)
    \/ main(EnvWindow)
    \/ OnAi(EnvWindow)
    \/ OnPersona(EnvWindow)
    \/ OnCustom(EnvWindow)
    \/ OnReset(EnvWindow)
    \/ OnStock(EnvWindow)
    \/ sync_forever

SpecWindow == Init /\ [][NextWindow]_vars

---------------------------------------------------------------------------
(* Two coroutines of message_callback in flight at once.  A coroutine runs
   without interruption from one await that suspends to the next: the awaits
   of display_name and of the two send methods wait for the transport and
   suspend; the awaits of moderate, add_history, persona and custom never
   suspend, and chat.completions.create is a blocking call. *)

\* What one uninterrupted stretch of a coroutine works on.
Stretch(t) ==
    [messages |-> messages, room_models |-> room_models, log |-> history_log, task |-> t]

\* add_history, with the call entered in the log under the caller's turn.
logged_add_history(a, role, channel, sender, message) ==
    [a EXCEPT !.messages = add_history(@, role, channel, sender, message),
              !.log = Append(@, [slot |-> a.task.slot, began |-> a.task.began,
                                 room |-> channel, user |-> sender, role |-> role])]

\* The coroutine suspends at an await.
Suspend(a, at) == [a EXCEPT !.task.at = at]

\* The coroutine returns.
Return(a) == [a EXCEPT !.task = NoTask(a.task.slot)]

\* An exception leaves the coroutine.
Escape(a) == [a EXCEPT !.task = [NoTask(a.task.slot) EXCEPT !.at = "raised"]]

\* respond, from its call to the first await that suspends: the await of
\* display_name after the assistant message is stored, or the apology's send.
respond_to_await(a, channel, sender, sender2, completion) ==
    IF completion = Failed
    THEN Suspend(a, "send_message")
    ELSE LET response_text == strip(completion)
             a1 == logged_add_history(a, "assistant", channel, sender, response_text)
         IN  [a1 EXCEPT !.task.at = "respond_display_name",
                        !.task.channel = channel,
                        !.task.sender = sender,
                        !.task.sender2 = sender2,
                        !.task.response_text = response_text]

\* respond, after send_markdown_message: the window, on the conversation as
\* it is by then.
respond_after_send(a) ==
    LET h == Conv(a.messages, a.task.channel, a.task.sender)
    IN  Return(IF Len(h) > WindowLimit
               THEN [a EXCEPT !.messages[a.task.channel] = Put(@, a.task.sender, DelSlice(h))]
               ELSE a)

\* _handle_x_command after its loop: moderation, the append and respond.
x_after_loop(a, completion) ==
    LET t == a.task
    IN  IF moderate(t.m) THEN Suspend(a, "send_message")
        ELSE respond_to_await(
                 logged_add_history(a, "user", t.ev.room, t.name_id, t.m),
                 t.ev.room, t.name_id, t.ev.sender, completion)

\* The for statement of _handle_x_command asks the dict's iterator for the
\* next participant: RuntimeError when the dict has changed size since the
\* iterator was made, else the await of display_name for the next one, else
\* the end of the loop.
x_for_next(a, completion) ==
    LET t == a.task
    IN  IF Len(a.messages[t.ev.room]) # Len(t.users) THEN Escape(a)
        ELSE IF t.k < Len(t.users)
        THEN [a EXCEPT !.task.k = @ + 1, !.task.at = "x_display_name"]
        ELSE x_after_loop(a, completion)

\* A handler that awaits nothing before the send it ends with, as the
\* sequential run w of it leaves the stores.
then_send(a, w) ==
    LET a1 == [a EXCEPT !.messages = w.messages, !.room_models = w.room_models]
    IN  IF w.raised THEN Escape(a1)
        ELSE IF w.outbox = <<>> THEN Return(a1)
        ELSE Suspend(a1, "send_message")

\* message_callback from the answer to display_name(sender) to the next await
\* that suspends, through the handler the line is routed to.
dispatch(a, dn, completion, help_ok) ==
    LET ev == a.task.ev
        room_id == ev.room
        sender == ev.sender
        message == ev.body
        sender_display == display_name(dn, sender)
        a0 == [a EXCEPT !.task.sender_display = sender_display]
        w == World(a.messages, a.room_models)
        to == Route(message)
    IN  CASE to = "TypeError" -> Escape(a0)
          [] to \in {"ai", "persona", "custom"} ->
               IF Len(Split1(message)) < 2 THEN Escape(a0)
               ELSE LET m == Split1(message)[2]
                    IN  IF moderate(m) THEN Suspend(a0, "send_message")
                        ELSE IF to = "ai"
                        THEN respond_to_await(
                                 logged_add_history(a0, "user", room_id, sender, m),
                                 room_id, sender, None, completion)
                        ELSE respond_to_await(
                                 logged_add_history(
                                     [a0 EXCEPT !.messages = Clear(@, room_id, sender)],
                                     "system", room_id, sender,
                                     IF to = "persona" THEN prompt[1] \o m \o prompt[2] ELSE m),
                                 room_id, sender, None, completion)
          [] to = "x" ->
               IF Len(Split2(message)) > 2 /\ room_id \in DOMAIN a.messages
               THEN x_for_next([a0 EXCEPT !.task.disp_name = Split2(message)[2],
                                          !.task.m = Split2(message)[3],
                                          !.task.name_id = <<>>,
                                          !.task.users = Keys(a.messages[room_id]),
                                          !.task.k = 0],
                               completion)
               ELSE Return(a0)
          [] to = "model" ->
               then_send(a0, _handle_model_command(w, room_id, sender, sender_display, message))
          [] to = "reset" ->
               Suspend(IF HasConv(a.messages, room_id, sender)
                       THEN logged_add_history(
                                [a0 EXCEPT !.messages = Clear(@, room_id, sender)],
                                "system", room_id, sender,
                                prompt[1] \o config_personality \o prompt[2])
                       ELSE a0,
                       "send_message")
          [] to = "stock" ->
               then_send(a0, _handle_stock_command(w, room_id, sender, sender_display))
          [] to = "help" ->
               then_send(a0, _handle_help_command(w, room_id, sender_display, help_ok))
          [] OTHER -> Return(a0)

MaxAsyncLog == 4

\* The stretch a has run: the stores and the log as it leaves them, and the
\* coroutine of slot s as it is suspended, returned or failed.
Commit(env, s, a) ==
    /\ StoreSize(a.messages, DOMAIN a.messages) <= env.maxstore
    /\ Len(a.log) <= MaxAsyncLog
    /\ messages' = a.messages
    /\ room_models' = a.room_models
    /\ history_log' = a.log
    /\ tasks' = [tasks EXCEPT ![s] = a.task]
    /\ UNCHANGED <<pc, models, model_mapping, current_model, user_id, event, outbox,
                   requests, raised, evicted>>

\* The coroutine of slot s is not running: it has returned or failed.
Free(s) == tasks[s].at \in {"idle", "raised"}

\* The host starts message_callback on an event, in the first free slot,
\* while another coroutine may be suspended: the guards, then the await of
\* display_name(sender).  The log starts anew when nothing is in flight.
StartCallback(env) ==
    /\ pc = "syncing"
    /\ \E s \in Slots, ev \in env.events :
           /\ Free(s)
           /\ \A s2 \in Slots : s2 < s => ~Free(s2)
           /\ ~Dropped(ev)
           /\ LET log == IF \A s2 \in Slots : Free(s2) THEN <<>> ELSE history_log
              IN  Commit(env, s,
                         [Stretch([NoTask(s) EXCEPT !.at = "display_name",
                                                   !.ev = ev,
                                                   !.began = Len(log)])
                              EXCEPT !.log = log])

\* display_name(sender) answers in message_callback.
AfterSenderDisplay(env) ==
    /\ pc = "syncing"
    /\ \E s \in Slots, dn \in env.dirs, completion \in env.completions :
           /\ tasks[s].at = "display_name"
           /\ Commit(env, s, dispatch(Stretch(tasks[s]), dn, completion, TRUE))

\* display_name(user) answers in the loop of _handle_x_command.
AfterScanLookup(env) ==
    /\ pc = "syncing"
    /\ \E s \in Slots, dn \in env.dirs, completion \in env.completions :
           /\ tasks[s].at = "x_display_name"
           /\ LET t == tasks[s]
                  user == t.users[t.k]
              IN  Commit(env, s,
                         x_for_next(Stretch(IF t.disp_name = display_name(dn, user)
                                            THEN [t EXCEPT !.name_id = user] ELSE t),
                                    completion))

\* display_name(sender2 or sender) answers in respond: send_markdown_message
\* is awaited next.
AfterReplyLookup(env) ==
    /\ pc = "syncing"
    /\ \E s \in Slots :
           /\ tasks[s].at = "respond_display_name"
           /\ Commit(env, s, Suspend(Stretch(tasks[s]), "send_markdown_message"))

\* send_markdown_message returns in respond.
AfterReplySend(env) ==
    /\ pc = "syncing"
    /\ \E s \in Slots :
           /\ tasks[s].at = "send_markdown_message"
           /\ Commit(env, s, respond_after_send(Stretch(tasks[s])))

\* The send_message a handler ends with returns.
AfterSend(env) ==
    /\ pc = "syncing"
    /\ \E s \in Slots :
           /\ tasks[s].at = "send_message"
           /\ Commit(env, s, Return(Stretch(tasks[s])))

MaxAsyncStore == 5

AsyncBodies == {DotAi \o Hi, DotX \o Al \o Sp \o Hi, DotStock}

\* Bob's lines and Ann's ".ai hi" in one room.
EnvAsync ==
    Env(Events({"r1"}, {Bob}, AsyncBodies, {join_time + 1})
          \cup Events({"r1"}, {Ann}, {DotAi \o Hi}, {join_time + 1}),
        {Directory}, {Failed, Yo}, {Listed(Catalog)}, MaxAsyncStore, MaxAsyncStore)

NextAsync ==
    \/ initialize_openai(EnvAsync)
    \/ main(EnvAsync)
    \/ StartCallback(EnvAsync)
    \/ AfterSenderDisplay(EnvAsync)
    \/ AfterScanLookup(EnvAsync)
    \/ AfterReplyLookup(EnvAsync)
    \/ AfterReplySend(EnvAsync)
    \/ AfterSend(EnvAsync)

SpecAsync == Init /\ [][NextAsync]_vars

---------------------------------------------------------------------------
(* Properties *)

\* Every history of the store.
Histories(msgs) ==
    UNION {{msgs[r][i].hist : i \in 1..Len(msgs[r])} : r \in DOMAIN msgs}

\* A step is the run of message_callback on event'.
Handled == pc = "syncing" /\ pc' = "returned"

\* The event passes both guards of the dispatcher.
PassesGuards(ev) == ev.ts > join_time /\ ev.sender # config_matrix_username

\* The text a moderated command hands to the moderation gate.
Supplied(ev) ==
    IF StartsWith(ev.body, DotX) THEN Split2(ev.body)[3] ELSE Split1(ev.body)[2]

\* The event is one of the moderated commands, and its text is flagged.
FlaggedCommand(ev) ==
    /\ PassesGuards(ev)
    /\ Route(ev.body) \in {"ai", "x", "persona", "custom"}
    /\ Route(ev.body) = "x" => Len(Split2(ev.body)) > 2
    /\ moderate(Supplied(ev))

RejectionTexts ==
    {"{sender_display}: This message violates the usage policy and was not sent.",
     "{sender_display}: This persona violates the usage policy and was not set. Choose a new persona.",
     "{sender_display}: This custom prompt violates the usage policy and was not set."}

\* C1: every conversation that has had a message appended to it (every
\* non-empty history of the store) has a message of role system as its first
\* element.
C1_SystemFirst ==
    \A h \in Histories(messages) : h # <<>> => h[1].role = "system"

\* The conversation of sender in room is as .stock leaves it: .stock from the
\* sender in the room would not change the store.
AsStockLeaves(msgs, room, sender) ==
    _handle_stock_command(World(msgs, room_models), room, sender, None).messages = msgs

\* C2: when a sender's conversation is as .stock leaves it and the sender then
\* sends ".ai hi", the conversation begins with the default persona's system
\* preamble followed by the user message hi.
C2_StockThenAiReseeds ==
    [][(/\ Handled
        /\ PassesGuards(event')
        /\ event'.body = DotAi \o Hi
        /\ AsStockLeaves(messages, event'.room, event'.sender))
       => /\ HasConv(messages', event'.room, event'.sender)
          /\ Len(Conv(messages', event'.room, event'.sender)) >= 2
          /\ SubSeq(Conv(messages', event'.room, event'.sender), 1, 2)
                = <<Preamble, Msg("user", Hi)>>]_vars

\* C3: when .persona <text> or .custom <text> passes moderation, the
\* conversation handed to the completion request is exactly one message of
\* role system: the persona template around <text> for .persona, <text>
\* itself for .custom.
C3_SingleSystemMessage ==
    (/\ pc = "returned"
     /\ PassesGuards(event)
     /\ Route(event.body) \in {"persona", "custom"}
     /\ ~moderate(Supplied(event)))
    => /\ Len(requests) = 1
       /\ requests[1].messages =
              << Msg("system",
                     IF Route(event.body) = "persona"
                     THEN prompt[1] \o Supplied(event) \o prompt[2]
                     ELSE Supplied(event)) >>

\* C4: after the handling of any event, every conversation has at most 24
\* entries.
C4_WindowBound ==
    pc = "returned" => \A h \in Histories(messages) : Len(h) <= 24

\* The roles other than system, oldest first.
NonSystem(h) == {i \in 1..Len(h) : h[i].role # "system"}

\* h without its entries at i1 < i2, the others in order.
Without(h, i1, i2) ==
    [k \in 1..(Len(h) - 2) |->
        h[IF k < i1 THEN k ELSE IF k + 1 < i2 THEN k + 1 ELSE k + 2]]

\* h without its two oldest entries whose role is not system.
WithoutTwoOldest(h) ==
    LET i1 == FirstOf(NonSystem(h))
        i2 == FirstOf(NonSystem(h) \ {i1})
    IN  Without(h, i1, i2)

\* C5: when the window eviction runs on a conversation, what is left is the
\* conversation without its two oldest entries of a role other than system,
\* in the same order: two entries go, and no system entry.
C5_EvictsTwoOldestNonSystem ==
    (pc = "returned" /\ evicted # <<>>)
    => /\ Len(evicted) = 1
       /\ Conv(messages, event.room, event.sender) = WithoutTwoOldest(evicted[1])

\* C6: when the text of a moderated command is flagged, the event changes
\* neither the history store nor the overrides, requests no completion, and
\* sends exactly one rejection message, to the room and naming the sender as
\* the display-name lookup gave it.
C6_FlaggedRejected ==
    [][(Handled /\ FlaggedCommand(event'))
       => /\ messages' = messages
          /\ room_models' = room_models
          /\ requests' = <<>>
          /\ Len(outbox') = 1
          /\ outbox'[1].room = event'.room
          /\ outbox'[1].body.text \in RejectionTexts
          /\ outbox'[1].body.name \in
                 {Fmt(display_name(dn, event'.sender)) : dn \in {Directory, NoDirectory}}]_vars

\* The line is ".model <name>".
ModelSetLine(ev) == StartsWith(ev.body, DotModel \o Sp)

\* C7: the override map changes only in the handling of a ".model <name>" line
\* of an admin, and a ".model <name>" line of anyone else changes no state
\* and sends nothing.
C7_OnlyAdminSetsModel ==
    [][/\ room_models' # room_models
          => /\ Handled
             /\ PassesGuards(event')
             /\ ModelSetLine(event')
             /\ event'.sender \in config_admins
       /\ (/\ Handled
           /\ PassesGuards(event')
           /\ ModelSetLine(event')
           /\ event'.sender \notin config_admins)
          => /\ messages' = messages
             /\ room_models' = room_models
             /\ outbox' = <<>>
             /\ requests' = <<>>]_vars

\* A non-admin's ".model gpt-x" has been handled in a room whose override an
\* admin had set.
C7_Witness ==
    /\ pc = "returned"
    /\ event.sender = Bob
    /\ event.ts > join_time
    /\ event.body = DotModel \o Sp \o GptX
    /\ event.room \in DOMAIN room_models
    /\ room_models[event.room] = IdGptX
    /\ user_id # None
    /\ outbox = <<>>

\* The line is the model query.
QueryLine(ev) == ev.body = DotModel \/ ev.body = DotModels

\* C8: in a room with no override, the model the query reports and the model
\* every completion request names are the process default; and in a room with
\* an override, after an admin's ".model reset" the room resolves to the
\* process default again.
C8_ResolvesToDefault ==
    [][/\ (/\ Handled
           /\ PassesGuards(event')
           /\ event'.room \notin DOMAIN room_models
           /\ event'.room \notin DOMAIN room_models')
          => /\ \A i \in 1..Len(requests') : requests'[i].model = default_model
             /\ (Route(event'.body) = "model" /\ QueryLine(event'))
                   => (Len(outbox') = 1 /\ outbox'[1].body.name = default_model)
       /\ (/\ Handled
           /\ PassesGuards(event')
           /\ event'.room \in DOMAIN room_models
           /\ event'.sender \in config_admins
           /\ event'.body = DotModel \o Sp \o Reset)
          => /\ event'.room \in DOMAIN room_models'
                => room_models'[event'.room] = default_model]_vars

\* C9: when an admin's ".model gpt-x" reaches the model handler with gpt-x in
\* the catalog, the room's override becomes the backend id of gpt-x; and the
\* model query in a room whose override is that id reports gpt-x, the name.
C9_QueryReportsName ==
    [][/\ (/\ Handled
           /\ PassesGuards(event')
           /\ Route(event'.body) = "model"
           /\ event'.sender \in config_admins
           /\ event'.body = DotModel \o Sp \o GptX
           /\ model_mapping.defined
           /\ GptX \in DOMAIN model_mapping.map)
          => /\ event'.room \in DOMAIN room_models'
             /\ room_models'[event'.room] = model_mapping.map[GptX]
       /\ (/\ Handled
           /\ PassesGuards(event')
           /\ Route(event'.body) = "model"
           /\ QueryLine(event')
           /\ event'.room \in DOMAIN room_models
           /\ model_mapping.defined
           /\ GptX \in DOMAIN model_mapping.map
           /\ room_models[event'.room] = model_mapping.map[GptX])
          => /\ Len(outbox') = 1
             /\ outbox'[1].body.name = GptX]_vars

\* C10: an event that is not strictly newer than the join time, or that the
\* bot itself sent, changes no conversation and no override, requests no
\* completion and sends nothing, whatever its body.
C10_GuardedEventsDropped ==
    [][(/\ Handled
        /\ (event'.ts <= join_time \/ event'.sender = config_matrix_username))
       => /\ messages' = messages
          /\ room_models' = room_models
          /\ outbox' = <<>>
          /\ requests' = <<>>
          /\ ~raised']_vars

\* An ".ai hi" stamped with the join time has been handled with a
\* conversation in the store and an override set.
C10_Witness ==
    /\ pc = "returned"
    /\ event.ts = join_time
    /\ event.body = DotAi \o Hi
    /\ event.room \in DOMAIN messages
    /\ HasConv(messages, event.room, event.sender)
    /\ Conv(messages, event.room, event.sender) # <<>>
    /\ outbox = <<>>

\* Every conversation of the store after the step is either as it was before
\* the step or as the completion request q carried it.
OnlyAsRequested(before, after, q) ==
    \A r \in DOMAIN after : \A i \in 1..Len(after[r]) :
        \/ after[r][i].hist = q.messages
        \/ /\ HasConv(before, r, after[r][i].user)
           /\ Conv(before, r, after[r][i].user) = after[r][i].hist

\* C11: when the completion request made in respond fails, respond leaves
\* every conversation as it was when the request was made (nothing appended),
\* runs no eviction, exactly one message is sent, the plain apology to the
\* room, and no exception leaves message_callback.
C11_FailureAppendsNothing ==
    [][(Handled /\ \E i \in 1..Len(requests') : requests'[i].failed)
       => /\ Len(requests') = 1
          /\ OnlyAsRequested(messages, messages', requests'[1])
          /\ evicted' = <<>>
          /\ outbox' =
                << [room |-> event'.room, msgtype |-> "m.text", html |-> FALSE,
                    body |-> Body("An error occurred while generating a response. Please try again later.",
                                  <<>>, <<>>)] >>
          /\ ~raised']_vars

\* An ".ai hi" whose completion request failed has been handled: the
\* request carried the seeded conversation, and the apology went out.
C11_Witness ==
    /\ pc = "returned"
    /\ event.body = DotAi \o Hi
    /\ Len(requests) = 1
    /\ requests[1].failed
    /\ requests[1].messages = <<Preamble, Msg("user", Hi)>>
    /\ Conv(messages, event.room, event.sender) = requests[1].messages
    /\ Len(outbox) = 1
    /\ ~outbox[1].html

\* C12: after the handling of any event, every message of role user in a
\* conversation is immediately followed by a message of role assistant.
C12_CompletedTurnsOnly ==
    pc = "returned"
    => \A h \in Histories(messages) : \A i \in 1..Len(h) :
           h[i].role = "user" => (i < Len(h) /\ h[i + 1].role = "assistant")

\* C13: the handling of every event that passes the guards ends without an
\* exception leaving message_callback; and when the line matches no prefix
\* (neither a command prefix nor the bot's name), it changes neither the
\* history store nor the overrides, requests no completion and sends nothing.
C13_RoutingTotal ==
    [][(Handled /\ PassesGuards(event'))
       => /\ ~raised'
          /\ (\A p \in {DotAi, DotX, DotPersona, DotCustom, DotModel, DotReset,
                         DotStock, DotHelp, Fmt(user_id)} : ~StartsWith(event'.body, p))
                => /\ messages' = messages
                   /\ room_models' = room_models
                   /\ requests' = <<>>
                   /\ outbox' = <<>>]_vars

\* The participant ".x <name> ..." addresses in a room, under the directory
\* dn: the first participant of the room whose display name is name, and name
\* itself as a participant id when there is none.
FirstNamed(msgs, room, name, dn) ==
    LET users == IF room \in DOMAIN msgs THEN Keys(msgs[room]) ELSE <<>>
        named == {i \in 1..Len(users) : display_name(dn, users[i]) = name}
    IN  IF named = {} THEN name ELSE users[FirstOf(named)]

\* The conversation of u in room has grown by the step and holds the user
\* message text.
GotUserMessage(before, after, room, u, text) ==
    /\ HasConv(after, room, u)
    /\ Msg("user", text) \in Range(Conv(after, room, u))
    /\ HasConv(before, room, u)
          => Len(Conv(after, room, u)) > Len(Conv(before, room, u))

\* C14: when ".x <name> <text>" passes moderation, in any state of the room,
\* <text> is appended as a user message to the conversation of the first
\* participant of the room named <name>, or of the participant whose id is
\* <name> when nobody is; and the sender's conversation, when the sender is
\* not the one addressed, is left as it was.
C14_XAddressesFirstNamed ==
    [][(/\ Handled
        /\ PassesGuards(event')
        /\ Route(event'.body) = "x"
        /\ Len(Split2(event'.body)) > 2
        /\ ~moderate(Split2(event'.body)[3]))
       => \E dn \in {Directory, NoDirectory} :
              LET target == FirstNamed(messages, event'.room, Split2(event'.body)[2], dn)
              IN  /\ GotUserMessage(messages, messages', event'.room, target,
                                    Split2(event'.body)[3])
                  /\ (target # event'.sender
                        /\ HasConv(messages, event'.room, event'.sender))
                       => /\ HasConv(messages', event'.room, event'.sender)
                          /\ Conv(messages', event'.room, event'.sender)
                                = Conv(messages, event'.room, event'.sender)]_vars

\* C15: after an admin's ".model reset", whatever the catalog holds, the room
\* has no override other than the process default: it resolves to the process
\* default, and never to the backend id of a model named reset.
C15_ResetClearsOverride ==
    [][(/\ Handled
        /\ PassesGuards(event')
        /\ Route(event'.body) = "model"
        /\ event'.sender \in config_admins
        /\ event'.body = DotModel \o Sp \o Reset)
       => (event'.room \in DOMAIN room_models'
             => /\ room_models'[event'.room] = default_model
                /\ room_models'[event'.room] # IdReset)]_vars

\* C16: after a ".reset" line of a sender that passes the guards, the
\* sender's conversation in the room is absent or exactly the default
\* persona's system message, so that appending a message to it gives the
\* preamble and the message; exactly one message, the acknowledgement, is
\* sent to the room, and no completion is requested.
C16_ResetReseeds ==
    [][(/\ Handled
        /\ PassesGuards(event')
        /\ event'.body = DotReset)
       => /\ HasConv(messages', event'.room, event'.sender)
                => Conv(messages', event'.room, event'.sender) = <<Preamble>>
          /\ Conv(add_history(messages', "user", event'.room, event'.sender, Hi),
                  event'.room, event'.sender) = <<Preamble, Msg("user", Hi)>>
          /\ Len(outbox') = 1
          /\ outbox'[1].room = event'.room
          /\ outbox'[1].body.text = "{self.client.user_id} reset to default for {sender_display}"
          /\ requests' = <<>>]_vars

\* The models available after initialisation: the listed and admitted ones,
\* and after a failed listing the configured allow-list under restriction.
AvailableSet ==
    IF model_mapping.defined THEN Range(models)
    ELSE IF config_restrict_to_specified_models THEN Range(config_models) ELSE {}

\* The default the initialisation is to choose among the available models.
ChosenDefault ==
    IF AvailableSet = {} \/ config_default_model \in AvailableSet
    THEN config_default_model
    ELSE sorted(AvailableSet)[1]

\* C17: in a room with no override, every completion request names the
\* default chosen at initialisation: the configured default when it is
\* available or nothing is, and otherwise the alphabetically first available
\* model, also when the available models are the fallback allow-list.
C17_RequestNamesChosenDefault ==
    (/\ pc = "returned"
     /\ event.room \notin DOMAIN room_models)
    => \A i \in 1..Len(requests) : requests[i].model = ChosenDefault

\* C18: after a failed listing (the only way model_mapping is left unset),
\* the model query reports the configured allow-list as the available models
\* under restriction and none otherwise, and an admin's ".model <name>" ends
\* without an exception, with exactly one reply.
C18_FailedListingDegrades ==
    [][(/\ Handled
        /\ PassesGuards(event')
        /\ Route(event'.body) = "model"
        /\ ~model_mapping.defined)
       => /\ QueryLine(event')
                => /\ Len(outbox') = 1
                   /\ outbox'[1].body.arg =
                          Join(IF config_restrict_to_specified_models
                               THEN config_models ELSE <<>>)
          /\ (ModelSetLine(event') /\ event'.sender \in config_admins)
                => /\ ~raised'
                   /\ Len(outbox') = 1]_vars

\* The entries i < j of the log are the user message and the assistant
\* message of one turn on one conversation.
OneTurn(log, i, j) ==
    /\ i < j
    /\ log[i].role = "user"
    /\ log[j].role = "assistant"
    /\ log[i].slot = log[j].slot
    /\ log[i].began = log[j].began
    /\ log[i].room = log[j].room
    /\ log[i].user = log[j].user

\* Between the two appends of a turn, no other coroutine has appended to the
\* turn's conversation.
TurnsSerialized ==
    \A i, j \in 1..Len(history_log) :
        OneTurn(history_log, i, j)
        => \A k \in (i + 1)..(j - 1) :
               (history_log[k].room = history_log[i].room
                  /\ history_log[k].user = history_log[i].user)
               => history_log[k].slot = history_log[i].slot

\* A coroutine suspended in the loop of ".x" finds the room's participants
\* as they were when it started to scan them.
ScanUndisturbed ==
    \A s \in Slots :
        tasks[s].at = "x_display_name"
        => Keys(messages[tasks[s].ev.room]) = tasks[s].users

\* C19: with two coroutines of message_callback interleaved at the awaits
\* that suspend, no other coroutine appends to a conversation between a
\* turn's user message and its assistant message, and the participants of a
\* room do not change while ".x" scans them.
C19_ConversationsSerialized == TurnsSerialized /\ ScanUndisturbed

\* The keys (room, participant) of the conversations of the store.
ConvKeys(msgs) ==
    UNION {{<<r, msgs[r][i].user>> : i \in 1..Len(msgs[r])} : r \in DOMAIN msgs}

\* The keys whose conversation the step has created or changed.
Changed(before, after) ==
    {k \in ConvKeys(before) \cup ConvKeys(after) :
        ~(/\ HasConv(before, k[1], k[2])
          /\ HasConv(after, k[1], k[2])
          /\ Conv(before, k[1], k[2]) = Conv(after, k[1], k[2]))}

\* C20: the handling of an event from sender S in room R changes no
\* conversation outside room R, none in R other than that of S and, for
\* ".x", that of one addressed participant; it changes the override of no
\* room other than R; a conversation command changes no override, and
\* ".model" changes no conversation.
C20_FrameOfACommand ==
    [][Handled
       => LET R == event'.room
              S == event'.sender
              to == Route(event'.body)
          IN  /\ \A k \in Changed(messages, messages') : k[1] = R
              /\ DOMAIN messages \subseteq DOMAIN messages'
              /\ DOMAIN messages' \ DOMAIN messages \subseteq {R}
              /\ to # "x" => Changed(messages, messages') \subseteq {<<R, S>>}
              /\ Cardinality(Changed(messages, messages') \ {<<R, S>>}) <= 1
              /\ DOMAIN room_models \subseteq DOMAIN room_models'
              /\ DOMAIN room_models' \ DOMAIN room_models \subseteq {R}
              /\ \A r \in DOMAIN room_models \ {R} : room_models'[r] = room_models[r]
              /\ to \in {"ai", "x", "persona", "custom", "reset", "stock"}
                    => room_models' = room_models
              /\ to = "model" => messages' = messages]_vars

\* An admin's ".model reset" has been handled in a room while another room
\* keeps the override it had and conversations are in the store.
C20_Witness ==
    /\ pc = "returned"
    /\ event.ts > join_time
    /\ event.body = DotModel \o Sp \o Reset
    /\ event.room \in DOMAIN room_models
    /\ room_models[event.room] = default_model
    /\ \E r \in DOMAIN room_models : r # event.room /\ room_models[r] = IdGptX
    /\ ConvKeys(messages) # {}

\* text with its capitals folded to lower case.
Folded(text) ==
    [i \in 1..Len(text) |-> IF text[i] \in DOMAIN Fold THEN Fold[text[i]] ELSE text[i]]

\* The forbidden_words gate flags text: a forbidden word occurs in it,
\* whatever the case of either.
Flagged(text) ==
    \E word \in config_forbidden_words :
        \E i \in 0..Len(text) :
            /\ i + Len(word) <= Len(text)
            /\ Folded(SubSeq(text, i + 1, i + Len(word))) = Folded(word)

\* The text a command supplied for a stored message: what stands inside the
\* persona template for a message ".persona" built, the content otherwise.
SuppliedText(msg) ==
    LET c == msg.content
    IN  IF /\ msg.role = "system"
           /\ Len(c) >= 2
           /\ SubSeq(c, 1, 1) = prompt[1]
           /\ SubSeq(c, Len(c), Len(c)) = prompt[2]
        THEN SubSeq(c, 2, Len(c) - 1)
        ELSE c

\* No message of role user or system in h, the default persona's preamble
\* apart, was supplied as a flagged text.
Moderated(h) ==
    \A i \in 1..Len(h) :
        (h[i].role \in {"user", "system"} /\ h[i] # Preamble)
        => ~Flagged(SuppliedText(h[i]))

\* C21: with moderation enabled under the forbidden_words strategy, in every
\* reachable state no conversation holds a user or system message whose
\* text, supplied through .ai, .x, .persona or .custom, the gate flags, and
\* no completion request carries one; only the default persona's preamble
\* and the assistant replies are stored unmoderated.
C21_NoFlaggedTextStored ==
    (config_moderation_enabled /\ config_moderation_strategy = "forbidden_words")
    => /\ \A h \in Histories(messages) : Moderated(h)
       /\ \A i \in 1..Len(requests) : Moderated(requests[i].messages)

\* A flagged ".ai Bad" has been handled and rejected while the sender's
\* conversation holds a user message that passed the gate.
C21_Witness ==
    /\ pc = "returned"
    /\ event.ts > join_time
    /\ event.body = DotAi \o Bad
    /\ Flagged(Bad)
    /\ Len(outbox) = 1
    /\ requests = <<>>
    /\ HasConv(messages, event.room, event.sender)
    /\ Msg("user", Hi) \in Range(Conv(messages, event.room, event.sender))

====
